---- MODULE Spec2Model ----
(***************************************************************************)
(* abnScreenshots: the map capture tool of src/index.js (block version,    *)
(* lines 333-867).  A batch of areas is processed by downloadAndStitchMaps:*)
(* tile range, tile-count limit, tile fetch through the disk cache         *)
(* (getMapTile), block composition, row and column reduction, copy to the  *)
(* output file, cleanup of the temporary folder.                           *)
(*                                                                         *)
(* The program is one JavaScript thread.  A step of the model is a piece   *)
(* of code that runs without giving control back to the event loop; the    *)
(* values of pc in AwaitPcs are the places where the code is suspended in  *)
(* an await, and only there can a provider response be delivered.          *)
(***************************************************************************)
EXTENDS Integers, Sequences, FiniteSets, TLC

VARIABLES
    CONFIG,        \* the configuration object (areas, zoom, use3x3Grid, maxTiles)
    cache,         \* the tile cache folder: the files written or found there,
                   \* cache path -> [data, writes], beside the preloaded ones
    cacheAtStart,  \* DOMAIN cache when the run started (never changes)
    cacheStats,    \* [hits, misses]
    inflight,      \* provider requests sent and not yet answered
    pc,            \* where downloadAndStitchMaps stands
    areaIdx,       \* index in CONFIG.areas of the area being processed
    loc,           \* the local variables of the current loop iteration
    blockTiles,    \* the promises of the current block, in push order
    tempFolders,   \* names of the temp_<areaName> folders that exist
    tempFiles,     \* files in the temp folders: path -> image
    outputFiles,   \* output files: area name -> image
    outcome,       \* what the run logged for each area
    tileCalls,     \* history: how many getMapTile calls each area has made
    faults,        \* how many times the environment has failed so far
    calls,         \* history: the getMapTile calls for the flaky tiles, in call order
    responses      \* history: the provider responses delivered

vars == <<CONFIG, cache, cacheAtStart, cacheStats, inflight, pc, areaIdx, loc,
          blockTiles, tempFolders, tempFiles, outputFiles, outcome,
          tileCalls, faults, calls, responses>>

---------------------------------------------------------------------------
(* Program constants *)

TILE_SIZE == 512

BLOCK_SIZE_TILES == 10

\* Bound: the longest batch (CONFIG.areas) the model runs.
MaxAreas == 2

\* Bound: how many failures of the environment (unreadable cache file, failed
\* provider request, failed cache write, failed sharp operation, failed copy)
\* one run meets.
MaxFaults == 1

Min(a, b) == IF a < b THEN a ELSE b

Max(a, b) == IF a > b THEN a ELSE b

RECURSIVE Pow2(_)

Pow2(n) == IF n = 0 THEN 1 ELSE 2 * Pow2(n - 1)

CeilDiv(a, b) == (a + b - 1) \div b

---------------------------------------------------------------------------
(* Coordinates.  Latitudes and longitudes are in millionths of a degree. *)

\* The code of one longitude that is not on the grid of millionths: the
\* double 179.99999999999997, the largest one below 180.
LastLonBelow180 == 1000000000

\* lon + 180 as the double addition gives it, in millionths of a degree.  For
\* a longitude of the grid the sum is the grid value; for the largest double
\* below 180 the exact sum lies half way between two doubles and is rounded
\* to 360.
LonPlus180(lon) == IF lon = LastLonBelow180 THEN 360000000 ELSE lon + 180000000

\* floor((lon + 180) / 360 * 2^zoom), for zoom <= 18.  360e6 = 2^8 * 1406250:
\* below zoom 8 the width of a tile is a whole number of millionths; from
\* zoom 8 on the product is split so that no intermediate value leaves 32 bits.
long2tile(lon, zoom) ==
    LET q == LonPlus180(lon)
    IN  IF zoom < 8
        THEN q \div (360000000 \div Pow2(zoom))
        ELSE ((q \div 1406250) * Pow2(zoom - 8))
             + (((q % 1406250) * Pow2(zoom - 8)) \div 1406250)

\* (1 - ln(tan(lat) + 1/cos(lat)) / pi) / 2 in units of 2^-30, rounded down,
\* for the latitudes of the areas of the model.  Above 85.051128 degrees
\* north the value is negative, below 85.051128 degrees south it is above 2^30.
MercatorFraction(lat) ==
    CASE lat = 34042200 -> 428774162
      [] lat = 34042400 -> 428773442
      [] lat = 34045500 -> 428762284
      [] lat = -89000000 -> 1347126254
      [] lat = -85051128 -> 1073741797
      [] lat = -60000000 -> 761927583
      [] lat = 0 -> 536870912
      [] lat = 60000000 -> 311814240
      [] lat = 85051128 -> 26
      [] lat = 89000000 -> -273384431

lat2tile(lat, zoom) == MercatorFraction(lat) \div Pow2(30 - zoom)

\* A faulty variant of createBoundingBox: point1 is taken as the south-west
\* corner and point2 as the north-east corner, as they are given.
createBoundingBoxAsGiven(point1, point2) ==
    [minLon |-> point1.lon, minLat |-> point1.lat,
     maxLon |-> point2.lon, maxLat |-> point2.lat]

createBoundingBox(point1, point2) ==
    [minLon |-> Min(point1.lon, point2.lon),
     minLat |-> Min(point1.lat, point2.lat),
     maxLon |-> Max(point1.lon, point2.lon),
     maxLat |-> Max(point1.lat, point2.lat)]

\* The center tile range of an area and the tile counts derived from it.
CenterRange(area, zoom) ==
    LET bbox == createBoundingBox(area.point1, area.point2)
        centerMinTileX == long2tile(bbox.minLon, zoom)
        centerMaxTileX == long2tile(bbox.maxLon, zoom)
        centerMinTileY == lat2tile(bbox.maxLat, zoom)
        centerMaxTileY == lat2tile(bbox.minLat, zoom)
    IN  [centerMinTileX |-> centerMinTileX, centerMaxTileX |-> centerMaxTileX,
         centerMinTileY |-> centerMinTileY, centerMaxTileY |-> centerMaxTileY,
         centerNumTilesX |-> centerMaxTileX - centerMinTileX + 1,
         centerNumTilesY |-> centerMaxTileY - centerMinTileY + 1,
         centerTileCount |-> (centerMaxTileX - centerMinTileX + 1)
                             * (centerMaxTileY - centerMinTileY + 1)]

\* A faulty variant of the tile count: the 3x3 grid is counted as its eight
\* surrounding areas, without the center.
totalTileCountWithoutCenter(c, use3x3Grid) ==
    IF use3x3Grid THEN c.centerTileCount * 8 ELSE c.centerTileCount

totalTileCount(c, use3x3Grid) ==
    IF use3x3Grid THEN c.centerTileCount * 9 ELSE c.centerTileCount

\* A faulty variant of the tile-count check: it also refuses a count equal
\* to the limit.
AreaTooLargeAtLimit(count, maxTiles) == count >= maxTiles

\* The safety check of the tile count against CONFIG.maxTiles.
AreaTooLarge(count, maxTiles) == count > maxTiles

\* A faulty variant of the final range: the 3x3 grid adds one tile on each
\* side instead of the width and height of the center range.
FinalRangeOneTileRing(c, use3x3Grid) ==
    IF use3x3Grid
    THEN [minTileX |-> c.centerMinTileX - 1, maxTileX |-> c.centerMaxTileX + 1,
          minTileY |-> c.centerMinTileY - 1, maxTileY |-> c.centerMaxTileY + 1]
    ELSE [minTileX |-> c.centerMinTileX, maxTileX |-> c.centerMaxTileX,
          minTileY |-> c.centerMinTileY, maxTileY |-> c.centerMaxTileY]

\* The range that is downloaded: the center range, or its 3x3 expansion.
FinalRange(c, use3x3Grid) ==
    IF use3x3Grid
    THEN [minTileX |-> c.centerMinTileX - c.centerNumTilesX,
          maxTileX |-> c.centerMaxTileX + c.centerNumTilesX,
          minTileY |-> c.centerMinTileY - c.centerNumTilesY,
          maxTileY |-> c.centerMaxTileY + c.centerNumTilesY]
    ELSE [minTileX |-> c.centerMinTileX, maxTileX |-> c.centerMaxTileX,
          minTileY |-> c.centerMinTileY, maxTileY |-> c.centerMaxTileY]

numTilesX(r) == r.maxTileX - r.minTileX + 1

numTilesY(r) == r.maxTileY - r.minTileY + 1

RangeTiles(r) == (r.minTileX .. r.maxTileX) \X (r.minTileY .. r.maxTileY)

---------------------------------------------------------------------------
(* The environment of a run: areas, provider, cache folder *)

\* The areas a batch is drawn from.  zone1 is one tile, zone2 two tiles of one
\* row (its points given north-east first) of which the first is zone1's;
\* zone3 is 7 x 4 tiles further east (21 x 12 tiles with the 3x3 grid: 3 x 2
\* blocks, the last ones smaller than 10 tiles).
AreaPool ==
    { [name |-> "zone1", point1 |-> [lat |-> 34042200, lon |-> -118253700],
                         point2 |-> [lat |-> 34042400, lon |-> -118253300]],
      [name |-> "zone2", point1 |-> [lat |-> 34042400, lon |-> -118252500],
                         point2 |-> [lat |-> 34042200, lon |-> -118253700]],
      [name |-> "zone3", point1 |-> [lat |-> 34042200, lon |-> -118215300],
                         point2 |-> [lat |-> 34045500, lon |-> -118206700]] }

ZoomChoices == {18}

MaxTilesChoices == {18, 50000}

\* The corner points of the areas of the coordinate runs: latitudes from
\* 89 degrees south to 89 degrees north, among them the two ends of the
\* Mercator range, and longitudes from -180 to the largest double below 180.
GeoLats == {-89000000, -85051128, -60000000, 0, 60000000, 85051128, 89000000}

GeoLons == {-180000000, -90000000, -1, 0, 179999999, LastLonBelow180}

GeoPoints == [lat : GeoLats, lon : GeoLons]

\* An area for every ordered pair of corner points.
GeoAreaPool == [name : {"geo"}, point1 : GeoPoints, point2 : GeoPoints]

GeoZooms == {0, 3, 8}

RECURSIVE SeqsUpTo(_, _)

\* The non-empty sequences over S of length at most n.
SeqsUpTo(S, n) ==
    IF n = 0 THEN {}
    ELSE LET shorter == SeqsUpTo(S, n - 1)
         IN  {<<x>> : x \in S} \cup shorter
             \cup {Append(q, x) : q \in shorter, x \in S}

\* Every tile an area of the pool can ask for.
WorldTiles ==
    UNION { RangeTiles(FinalRange(CenterRange(a, z), TRUE)) :
            a \in AreaPool, z \in ZoomChoices }

\* The tiles on which the environment may misbehave (missing from the cache
\* at the start, unreadable cache file, provider failure, cache write
\* failure): the two tiles of zone2.
FlakyTiles ==
    UNION { RangeTiles(FinalRange(CenterRange(a, z), FALSE)) :
            a \in {b \in AreaPool : b.name = "zone2"}, z \in ZoomChoices }

\* The bytes the provider serves for a tile.
TileData(x, y, zoom) == [zoom |-> zoom, x |-> x, y |-> y]

\* What is left in a cache file when fs.writeFileSync threw after it had
\* opened (created or truncated) the file: a part of the tile's bytes.
TruncatedData(x, y, zoom) == [zoom |-> zoom, x |-> x, y |-> y, truncated |-> TRUE]

\* The buffer holds a whole image.
WholeImage(buffer) == "truncated" \notin DOMAIN buffer

getTileCachePath(x, y, zoom) == <<zoom, x, y>>

\* The cache files of the tiles that are not flaky: they are in the cache
\* folder when the run starts, left there by earlier runs.
PreloadedPaths ==
    {getTileCachePath(t[1], t[2], z) : t \in WorldTiles \ FlakyTiles, z \in ZoomChoices}

\* fs.existsSync(cachePath)
CacheExists(c, cachePath) == cachePath \in DOMAIN c \/ cachePath \in PreloadedPaths

\* A faulty variant of the cache read: it returns an empty buffer.
CacheReadEmpty(c, cachePath) == [zoom |-> 0, x |-> 0, y |-> 0]

\* fs.readFileSync(cachePath)
CacheRead(c, cachePath) ==
    IF cachePath \in DOMAIN c THEN c[cachePath].data
    ELSE TileData(cachePath[2], cachePath[3], cachePath[1])

NoError == [kind |-> "none", zoom |-> 0, x |-> 0, y |-> 0]

\* A faulty variant of the download error: x and y are swapped in the message.
DownloadErrorSwapped(x, y, zoom) == [kind |-> "download", zoom |-> zoom, x |-> y, y |-> x]

DownloadError(x, y, zoom) == [kind |-> "download", zoom |-> zoom, x |-> x, y |-> y]

SharpError == [kind |-> "sharp", zoom |-> 0, x |-> 0, y |-> 0]

CopyError == [kind |-> "copy", zoom |-> 0, x |-> 0, y |-> 0]

NoData == [zoom |-> 0, x |-> 0, y |-> 0]

EmptyImage == [width |-> 0, height |-> 0, px |-> {}]

\* What the run has logged for an area: nothing yet, "tooLarge", "failed" with
\* the error, or "saved" with the image size it reports.
Logged(status, error, width, height) ==
    [status |-> status, error |-> error, width |-> width, height |-> height]

LocInit ==
    [minTileX |-> 0, maxTileX |-> 0, minTileY |-> 0, maxTileY |-> 0,
     beforeHits |-> 0, beforeMisses |-> 0, tempFolder |-> "",
     blockX |-> 0, blockY |-> 0,
     blockTileBuffers |-> <<>>, processedTiles |-> <<>>, blockFiles |-> <<>>,
     areaHits |-> 0, areaMisses |-> 0, reported |-> FALSE,
     blockRowFiles |-> <<>>, currentRowFiles |-> <<>>, currentFiles |-> <<>>,
     nextFiles |-> <<>>, iteration |-> 0, i |-> 0]

Init ==
    /\ CONFIG \in [areas : SeqsUpTo(AreaPool, MaxAreas), zoom : ZoomChoices,
                   use3x3Grid : BOOLEAN, maxTiles : MaxTilesChoices]
    /\ \E missing \in SUBSET FlakyTiles :
          cache = [p \in {getTileCachePath(t[1], t[2], CONFIG.zoom) : t \in FlakyTiles \ missing}
                     |-> [data |-> TileData(p[2], p[3], p[1]), writes |-> 0]]
    /\ cacheAtStart = DOMAIN cache
    /\ cacheStats = [hits |-> 0, misses |-> 0]
    /\ inflight = {}
    /\ pc = "loop"
    /\ areaIdx = 1
    /\ loc = LocInit
    /\ blockTiles = <<>>
    /\ tempFolders = {}
    /\ tempFiles = <<>>
    /\ outputFiles = <<>>
    /\ outcome = [k \in 1 .. Len(CONFIG.areas) |-> Logged("none", NoError, 0, 0)]
    /\ tileCalls = [k \in 1 .. Len(CONFIG.areas) |-> 0]
    /\ faults = 0
    /\ calls = <<>>
    /\ responses = {}

\* The start of a coordinate run: one area between two corner points taken
\* from all over the globe, in either order, at a low zoom, with the tile
\* limit of the shipped configuration and an empty cache folder.
GeoInit ==
    /\ CONFIG \in [areas : {<<a>> : a \in GeoAreaPool}, zoom : GeoZooms,
                   use3x3Grid : BOOLEAN, maxTiles : {50000}]
    /\ cache = <<>>
    /\ cacheAtStart = {}
    /\ cacheStats = [hits |-> 0, misses |-> 0]
    /\ inflight = {}
    /\ pc = "loop"
    /\ areaIdx = 1
    /\ loc = LocInit
    /\ blockTiles = <<>>
    /\ tempFolders = {}
    /\ tempFiles = <<>>
    /\ outputFiles = <<>>
    /\ outcome = <<Logged("none", NoError, 0, 0)>>
    /\ tileCalls = <<0>>
    /\ faults = 0
    /\ calls = <<>>
    /\ responses = {}

\* Areas of up to seven blocks a side at zooms 5 and 6: the north-west corner
\* on the antimeridian, the south-east corner further east and south.
WideAreaPool ==
    [name : {"wide"},
     point1 : [lat : {85051128, 60000000}, lon : {-180000000}],
     point2 : [lat : {60000000, 0, -60000000},
               lon : {-180000000, -90000000, 0, 179999999}]]

WideZooms == {5, 6}

\* The start of a run on one wide area whose tiles are all in the cache
\* folder, without the 3x3 grid.
WideInit ==
    /\ CONFIG \in [areas : {<<a>> : a \in WideAreaPool}, zoom : WideZooms,
                   use3x3Grid : {FALSE}, maxTiles : {50000}]
    /\ cache = [p \in {getTileCachePath(t[1], t[2], CONFIG.zoom) :
                          t \in RangeTiles(FinalRange(CenterRange(CONFIG.areas[1],
                                                                 CONFIG.zoom), FALSE))}
                  |-> [data |-> TileData(p[2], p[3], p[1]), writes |-> 0]]
    /\ cacheAtStart = DOMAIN cache
    /\ cacheStats = [hits |-> 0, misses |-> 0]
    /\ inflight = {}
    /\ pc = "loop"
    /\ areaIdx = 1
    /\ loc = LocInit
    /\ blockTiles = <<>>
    /\ tempFolders = {}
    /\ tempFiles = <<>>
    /\ outputFiles = <<>>
    /\ outcome = <<Logged("none", NoError, 0, 0)>>
    /\ tileCalls = <<0>>
    /\ faults = 0
    /\ calls = <<>>
    /\ responses = {}

---------------------------------------------------------------------------
(* Temporary folders and files *)

TempPath(folder, kind, a, b, c) ==
    [folder |-> folder, kind |-> kind, a |-> a, b |-> b, c |-> c]

\* ensureTempFolder: the folder is created when it does not exist; what is
\* in an existing folder is left as it is.
ensureTempFolder(folders, areaName) == folders \cup {areaName}

\* A faulty variant of cleanupTempFolder: the block files stay.
cleanupTempFolderKeepingBlocks(files, tempFolder) ==
    [p \in {q \in DOMAIN files : q.folder # tempFolder \/ q.kind = "block"} |-> files[p]]

\* cleanupTempFolder: the folder goes, with every file in it.
cleanupTempFolder(files, tempFolder) ==
    [p \in {q \in DOMAIN files : q.folder # tempFolder} |-> files[p]]

WriteFile(files, path, image) == (path :> image) @@ files

\* The folder of the cache files of a zoom, under CONFIG.dataFolder:
\* <provider>_z<zoom>.
ProviderFolderName(zoom) == <<"geoapify_z", ToString(zoom)>>

\* A faulty variant of the temp folder's name: the temp folder is the
\* provider folder of zoom 18.
TempFolderNameOfProvider(areaName) == <<"geoapify_z", "18">>

\* The temp folder of an area, under CONFIG.dataFolder: temp_<areaName>.
TempFolderName(areaName) == <<"temp_", areaName>>

\* cleanupTempFolder seen from the cache: fs.rmSync removes what is under
\* the temp folder, so the cache files in any other folder stay.
CacheAfterCleanup(c, areaName) ==
    [p \in {q \in DOMAIN c : ProviderFolderName(q[1]) # TempFolderName(areaName)} |-> c[p]]

---------------------------------------------------------------------------
(* getMapTile *)

\* The part of getMapTile that runs when it is called, up to its await of the
\* provider request.  st holds what the call reads and changes: cacheStats,
\* inflight, promises (the caller's array of promises) and calls (history).
\* Every promise carries the record of its call (history).
\* readFails says whether fs.readFileSync throws on an existing cache file.
getMapTile(st, area, x, y, zoom, readFails) ==
    LET cachePath == getTileCachePath(x, y, zoom)
        exists == CacheExists(cache, cachePath)
        counted == IF exists THEN [st.cacheStats EXCEPT !.hits = @ + 1]
                   ELSE st.cacheStats
        served == exists /\ ~readFails
        stats == IF served THEN counted ELSE [counted EXCEPT !.misses = @ + 1]
        sent == IF served THEN {} ELSE {[area |-> area, x |-> x, y |-> y, zoom |-> zoom]}
        call == [area |-> area, x |-> x, y |-> y, zoom |-> zoom,
                 cached |-> exists, readFailed |-> exists /\ readFails,
                 hits |-> stats.hits - st.cacheStats.hits,
                 misses |-> stats.misses - st.cacheStats.misses,
                 requests |-> Cardinality(sent)]
        promise == IF served
                   THEN [x |-> x, y |-> y, state |-> "fulfilled",
                         value |-> CacheRead(cache, cachePath), reason |-> NoError,
                         call |-> call]
                   ELSE [x |-> x, y |-> y, state |-> "pending",
                         value |-> NoData, reason |-> NoError, call |-> call]
    IN  [cacheStats |-> stats,
         inflight |-> st.inflight \cup sent,
         promises |-> Append(st.promises, promise),
         calls |-> IF <<x, y>> \in FlakyTiles THEN Append(st.calls, call)
                   ELSE st.calls]

\* A faulty variant of the settlement: a failed cache write rejects the
\* promise like a failed request.
SettledPromiseStrict(p, zoom, res) ==
    IF res # "ok"
    THEN [p EXCEPT !.state = "rejected", !.reason = DownloadError(p.x, p.y, zoom)]
    ELSE [p EXCEPT !.state = "fulfilled", !.value = TileData(p.x, p.y, zoom)]

\* The settled promise of a getMapTile call whose provider request got the
\* answer res: "ok" (bytes received and cached), "nowrite" (bytes received,
\* fs.writeFileSync threw before it had opened the file), "partial" (bytes
\* received, fs.writeFileSync threw after it had opened the file), "fail"
\* (axios.get threw).
SettledPromise(p, zoom, res) ==
    IF res = "fail"
    THEN [p EXCEPT !.state = "rejected", !.reason = DownloadError(p.x, p.y, zoom)]
    ELSE [p EXCEPT !.state = "fulfilled", !.value = TileData(p.x, p.y, zoom)]

\* fs.writeFileSync(cachePath, tileData): the file is created or replaced
\* (writes counts how many times this run has written it).
CacheWrite(c, cachePath, tileData) ==
    (cachePath :> [data |-> tileData,
                   writes |-> IF cachePath \in DOMAIN c THEN c[cachePath].writes + 1
                              ELSE 1]) @@ c

\* A faulty variant of the cache update: the downloaded bytes are never
\* written.
CacheAfterWithoutWrite(c, x, y, zoom, res) == c

\* The cache after the answer res to the request for tile (x, y).
CacheAfter(c, x, y, zoom, res) ==
    IF res = "ok"
    THEN CacheWrite(c, getTileCachePath(x, y, zoom), TileData(x, y, zoom))
    ELSE IF res = "partial"
    THEN CacheWrite(c, getTileCachePath(x, y, zoom), TruncatedData(x, y, zoom))
    ELSE c

---------------------------------------------------------------------------
(* downloadAndStitchMaps: the loop over the areas *)

AwaitPcs == {"await_tiles", "resize", "compose", "hmerge", "vmerge"}

Area == CONFIG.areas[areaIdx]

numBlocksX == CeilDiv(numTilesX(loc), BLOCK_SIZE_TILES)

numBlocksY == CeilDiv(numTilesY(loc), BLOCK_SIZE_TILES)

\* A faulty variant of the block range: the end of a block is not cut at the
\* end of the range.
BlockRangeUncut(r, blockX, blockY) ==
    LET startTileX == r.minTileX + blockX * BLOCK_SIZE_TILES
        startTileY == r.minTileY + blockY * BLOCK_SIZE_TILES
    IN  [startTileX |-> startTileX,
         endTileX |-> startTileX + BLOCK_SIZE_TILES - 1,
         startTileY |-> startTileY,
         endTileY |-> startTileY + BLOCK_SIZE_TILES - 1]

\* The tile range of block (blockX, blockY) of the range r.
BlockRange(r, blockX, blockY) ==
    LET startTileX == r.minTileX + blockX * BLOCK_SIZE_TILES
        startTileY == r.minTileY + blockY * BLOCK_SIZE_TILES
    IN  [startTileX |-> startTileX,
         endTileX |-> Min(startTileX + BLOCK_SIZE_TILES - 1, r.maxTileX),
         startTileY |-> startTileY,
         endTileY |-> Min(startTileY + BLOCK_SIZE_TILES - 1, r.maxTileY)]

blockNumTilesX(b) == b.endTileX - b.startTileX + 1

blockNumTilesY(b) == b.endTileY - b.startTileY + 1

\* The tiles of a block in the order of the two for loops: y outside, x inside.
BlockTileOrder(b) ==
    [k \in 1 .. blockNumTilesX(b) * blockNumTilesY(b) |->
        <<b.startTileX + ((k - 1) % blockNumTilesX(b)),
          b.startTileY + ((k - 1) \div blockNumTilesX(b))>>]

\* The environment fails at most MaxFaults times; ok says whether it does
\* its part this time.
Environment(ok) ==
    /\ ok \/ faults < MaxFaults
    /\ faults' = IF ok THEN faults ELSE faults + 1

\* A faulty variant of the catch block: the error is logged and the batch
\* stops.
FailAndStop(err) ==
    /\ outcome' = [outcome EXCEPT ![areaIdx] = Logged("failed", err, 0, 0)]
    /\ areaIdx' = areaIdx
    /\ pc' = "done"
    /\ loc' = LocInit
    /\ blockTiles' = <<>>

\* The catch block: the error is logged and the loop goes to the next area.
Fail(err) ==
    /\ outcome' = [outcome EXCEPT ![areaIdx] = Logged("failed", err, 0, 0)]
    /\ areaIdx' = areaIdx + 1
    /\ pc' = "loop"
    /\ loc' = LocInit
    /\ blockTiles' = <<>>

\* Top of the loop body up to the creation of the temp folder: bounding box,
\* center range, tile-count check (process.exit(1) when over the limit),
\* final range, cache statistics before the area, temp folder.
BeginArea ==
    /\ pc = "loop"
    /\ areaIdx <= Len(CONFIG.areas)
    /\ LET c == CenterRange(Area, CONFIG.zoom)
           count == totalTileCount(c, CONFIG.use3x3Grid)
           r == FinalRange(c, CONFIG.use3x3Grid)
       IN  IF AreaTooLarge(count, CONFIG.maxTiles)
           THEN /\ pc' = "exit"
                /\ outcome' = [outcome EXCEPT ![areaIdx] =
                                  Logged("tooLarge", NoError, 0, 0)]
                /\ inflight' = {}
                /\ UNCHANGED <<loc, tempFolders>>
           ELSE /\ pc' = "issue"
                /\ loc' = [LocInit EXCEPT
                              !.minTileX = r.minTileX, !.maxTileX = r.maxTileX,
                              !.minTileY = r.minTileY, !.maxTileY = r.maxTileY,
                              !.beforeHits = cacheStats.hits,
                              !.beforeMisses = cacheStats.misses,
                              !.tempFolder = Area.name]
                /\ tempFolders' = ensureTempFolder(tempFolders, Area.name)
                /\ UNCHANGED <<outcome, inflight>>
    /\ UNCHANGED <<CONFIG, cache, cacheAtStart, cacheStats, areaIdx, blockTiles,
                   tempFiles, outputFiles, tileCalls, faults, calls, responses>>

\* The for loop is over: downloadAndStitchMaps returns.
EndBatch ==
    /\ pc = "loop"
    /\ areaIdx > Len(CONFIG.areas)
    /\ pc' = "done"
    /\ UNCHANGED <<CONFIG, cache, cacheAtStart, cacheStats, inflight, areaIdx, loc,
                   blockTiles, tempFolders, tempFiles, outputFiles, outcome,
                   tileCalls, faults, calls, responses>>

RECURSIVE IssueRow(_, _, _, _, _)

RECURSIVE PushAndGoOn(_, _, _, _, _)

\* blockTiles.push(...) of the promise of the call for (x, y), then x++.
PushAndGoOn(pushed, x, endTileX, y, unreadable) ==
    IF Len(pushed.promises) > 0
    THEN IssueRow(pushed, x + 1, endTileX, y, unreadable)
    ELSE pushed

\* The inner for loop: getMapTile called for the tiles x, x+1, ... endTileX
\* of the row y in turn.
IssueRow(st, x, endTileX, y, unreadable) ==
    IF x > endTileX THEN st
    ELSE PushAndGoOn(getMapTile(st, areaIdx, x, y, CONFIG.zoom, <<x, y>> \in unreadable),
                     x, endTileX, y, unreadable)

RECURSIVE IssueRows(_, _, _, _)

RECURSIVE RowDoneAndGoOn(_, _, _, _)

\* The end of the inner for loop for the row y, then y++.
RowDoneAndGoOn(row, b, y, unreadable) ==
    IF Len(row.promises) > 0
    THEN IssueRows(row, b, y + 1, unreadable)
    ELSE row

\* The outer for loop: the rows y, y+1, ... endTileY of the block b.
IssueRows(st, b, y, unreadable) ==
    IF y > b.endTileY THEN st
    ELSE RowDoneAndGoOn(IssueRow(st, b.startTileX, b.endTileX, y, unreadable),
                        b, y, unreadable)

\* Phase 1, one block: getMapTile is called for every tile of the block
\* before anything is awaited.
IssueBlock ==
    /\ pc = "issue"
    /\ LET b == BlockRange(loc, loc.blockX, loc.blockY)
           order == BlockTileOrder(b)
           tiles == {order[k] : k \in DOMAIN order}
           cachedFlaky == {t \in tiles \cap FlakyTiles :
                             CacheExists(cache, getTileCachePath(t[1], t[2], CONFIG.zoom))}
       IN  \E unreadable \in SUBSET cachedFlaky :
           \E st \in {IssueRows([cacheStats |-> cacheStats, inflight |-> inflight,
                                 promises |-> <<>>, calls |-> calls],
                                b, b.startTileY, unreadable)} :
              /\ faults + Cardinality(unreadable) <= MaxFaults
              /\ faults' = faults + Cardinality(unreadable)
              /\ cacheStats' = st.cacheStats
              /\ inflight' = st.inflight
              /\ blockTiles' = st.promises
              /\ calls' = st.calls
              /\ tileCalls' = [tileCalls EXCEPT ![areaIdx] = @ + Len(st.promises)]
    /\ pc' = "await_tiles"
    /\ UNCHANGED <<CONFIG, cache, cacheAtStart, areaIdx, loc, tempFolders,
                   tempFiles, outputFiles, outcome, responses>>

AnyRejected == \E k \in DOMAIN blockTiles : blockTiles[k].state = "rejected"

\* A faulty variant of the join: it is over as soon as one fetch of the
\* block has succeeded.
SomeFulfilled == \E k \in DOMAIN blockTiles : blockTiles[k].state = "fulfilled"

AllFulfilled == \A k \in DOMAIN blockTiles : blockTiles[k].state = "fulfilled"

\* The code awaits something that is not settled yet, or has returned: the
\* event loop can deliver a provider response.
EventLoopIdle ==
    \/ pc = "done"
    \/ pc \in AwaitPcs \ {"await_tiles"}
    \/ pc = "await_tiles" /\ ~AnyRejected /\ ~AllFulfilled

\* The provider answers the request r with res; the rest of getMapTile runs.
Respond(r, res) ==
    /\ EventLoopIdle
    /\ Environment(res = "ok")
    /\ r \in inflight
    /\ inflight' = inflight \ {r}
    /\ cache' = CacheAfter(cache, r.x, r.y, r.zoom, res)
    /\ blockTiles' =
          [k \in DOMAIN blockTiles |->
              IF /\ r.area = areaIdx
                 /\ blockTiles[k].x = r.x /\ blockTiles[k].y = r.y
                 /\ blockTiles[k].state = "pending"
              THEN SettledPromise(blockTiles[k], r.zoom, res)
              ELSE blockTiles[k]]
    /\ responses' = responses \cup
          {[area |-> r.area, x |-> r.x, y |-> r.y, zoom |-> r.zoom, res |-> res,
            at |-> Len(calls),
            thrown |-> SettledPromise([x |-> r.x, y |-> r.y, state |-> "pending",
                                       value |-> NoData, reason |-> NoError],
                                      r.zoom, res).reason,
            wrote |-> cache' # cache]}
    /\ UNCHANGED <<CONFIG, cacheAtStart, cacheStats, pc, areaIdx, loc, tempFolders,
                   tempFiles, outputFiles, outcome, tileCalls, calls>>

ProviderResponse == \E r \in inflight : \E res \in {"ok", "nowrite", "partial", "fail"} : Respond(r, res)

\* await Promise.all(blockTiles) is over: with the buffers, or with the
\* error of the rejected promise.
TilesSettled ==
    /\ pc = "await_tiles"
    /\ \/ /\ AnyRejected
          /\ LET k == CHOOSE j \in DOMAIN blockTiles : blockTiles[j].state = "rejected"
             IN  Fail(blockTiles[k].reason)
       \/ /\ ~AnyRejected /\ AllFulfilled
          /\ loc' = [loc EXCEPT !.blockTileBuffers =
                        [k \in DOMAIN blockTiles |-> blockTiles[k].value]]
          /\ pc' = "resize"
          /\ UNCHANGED <<areaIdx, outcome, blockTiles>>
    /\ UNCHANGED <<CONFIG, cache, cacheAtStart, cacheStats, inflight, tempFolders,
                   tempFiles, outputFiles, tileCalls, faults, calls, responses>>

---------------------------------------------------------------------------
(* sharp: images are a canvas size in pixels and the tiles drawn on it *)

\* sharp(buffer).resize(TILE_SIZE, TILE_SIZE, {fit: 'fill'}).toBuffer()
ResizeTile(buffer) ==
    [width |-> TILE_SIZE, height |-> TILE_SIZE,
     px |-> {[left |-> 0, top |-> 0, data |-> buffer]}]

\* An image drawn at (left, top).
Overlay(image, left, top) ==
    {[left |-> q.left + left, top |-> q.top + top, data |-> q.data] : q \in image.px}

\* sharp({create: {width, height}}).composite(options): a transparent canvas
\* with every input drawn at its offset.
Composite(width, height, options) ==
    [width |-> width, height |-> height,
     px |-> UNION {Overlay(options[k].input, options[k].left, options[k].top) :
                   k \in DOMAIN options}]

\* The composite options of a block: the processed tiles in the order of the
\* two for loops, each at its local offset.
BlockCompositeOptions(b, processedTiles) ==
    [tileIndex \in 1 .. blockNumTilesX(b) * blockNumTilesY(b) |->
        LET x == b.startTileX + ((tileIndex - 1) % blockNumTilesX(b))
            y == b.startTileY + ((tileIndex - 1) \div blockNumTilesX(b))
            localX == x - b.startTileX
            localY == y - b.startTileY
        IN  [input |-> processedTiles[tileIndex],
             left |-> localX * TILE_SIZE,
             top |-> localY * TILE_SIZE]]

BlockImage(b, processedTiles) ==
    Composite(blockNumTilesX(b) * TILE_SIZE, blockNumTilesY(b) * TILE_SIZE,
              BlockCompositeOptions(b, processedTiles))

\* A faulty variant of the horizontal merge: image2 is placed at its own
\* width instead of the width of image1.
StitchHorizontalMisplaced(meta1, meta2) ==
    Composite(meta1.width + meta2.width, meta1.height,
              <<[input |-> meta1, left |-> 0, top |-> 0],
                [input |-> meta2, left |-> meta2.width, top |-> 0]>>)

\* A faulty variant of the horizontal merge: the canvas is twice as wide as
\* image1, as if both images had the width of a full block.
StitchHorizontalTwiceFirst(meta1, meta2) ==
    Composite(2 * meta1.width, meta1.height,
              <<[input |-> meta1, left |-> 0, top |-> 0],
                [input |-> meta2, left |-> meta1.width, top |-> 0]>>)

\* The horizontal merge of two images: image2 to the right of image1.
StitchHorizontal(meta1, meta2) ==
    Composite(meta1.width + meta2.width, meta1.height,
              <<[input |-> meta1, left |-> 0, top |-> 0],
                [input |-> meta2, left |-> meta1.width, top |-> 0]>>)

\* A faulty variant of the vertical merge: the canvas keeps the height of
\* image1.
StitchVerticalCropped(meta1, meta2) ==
    Composite(meta1.width, meta1.height,
              <<[input |-> meta1, left |-> 0, top |-> 0],
                [input |-> meta2, left |-> 0, top |-> meta1.height]>>)

\* A faulty variant of the vertical merge: image2 is placed at its own
\* height instead of the height of image1.
StitchVerticalMisplaced(meta1, meta2) ==
    Composite(meta1.width, meta1.height + meta2.height,
              <<[input |-> meta1, left |-> 0, top |-> 0],
                [input |-> meta2, left |-> 0, top |-> meta2.height]>>)

\* The vertical merge of two images: image2 below image1.
StitchVertical(meta1, meta2) ==
    Composite(meta1.width, meta1.height + meta2.height,
              <<[input |-> meta1, left |-> 0, top |-> 0],
                [input |-> meta2, left |-> 0, top |-> meta1.height]>>)

---------------------------------------------------------------------------
(* Phase 1: the blocks *)

\* sharp(buffer) throws on a buffer that does not hold a whole image.
Decodable(buffers) == \A k \in DOMAIN buffers : WholeImage(buffers[k])

\* await Promise.all(... resize ...) is over: every tile was resized, or
\* sharp threw (on a truncated buffer it always throws).
ResizeTiles(ok) ==
    /\ IF Decodable(loc.blockTileBuffers)
       THEN Environment(ok)
       ELSE ~ok /\ faults' = faults
    /\ pc = "resize"
    /\ IF ok
       THEN /\ loc' = [loc EXCEPT !.processedTiles =
                          [k \in DOMAIN loc.blockTileBuffers |->
                              ResizeTile(loc.blockTileBuffers[k])]]
            /\ pc' = "compose"
            /\ UNCHANGED <<areaIdx, outcome, blockTiles>>
       ELSE Fail(SharpError)
    /\ UNCHANGED <<CONFIG, cache, cacheAtStart, cacheStats, inflight, tempFolders,
                   tempFiles, outputFiles, tileCalls, calls, responses>>

\* blockFiles[blockY][blockX] = blockFilePath
SetBlockFile(blockFiles, blockY, blockX, path) ==
    IF blockY + 1 > Len(blockFiles)
    THEN Append(blockFiles, <<path>>)
    ELSE [blockFiles EXCEPT ![blockY + 1] = Append(@, path)]

\* The block image is written to block_<blockY>_<blockX>.png; then the next
\* block, or after the last one the cache report and the start of phase 2.
ComposeBlock(ok) ==
    /\ Environment(ok)
    /\ pc = "compose"
    /\ IF ok
       THEN LET b == BlockRange(loc, loc.blockX, loc.blockY)
                blockFilePath == TempPath(loc.tempFolder, "block", loc.blockY, loc.blockX, 0)
                files == SetBlockFile(loc.blockFiles, loc.blockY, loc.blockX, blockFilePath)
                done == [loc EXCEPT !.blockFiles = files, !.blockTileBuffers = <<>>,
                                    !.processedTiles = <<>>]
            IN  /\ tempFiles' = WriteFile(tempFiles, blockFilePath,
                                          BlockImage(b, loc.processedTiles))
                /\ IF loc.blockX + 1 < numBlocksX
                   THEN /\ loc' = [done EXCEPT !.blockX = loc.blockX + 1]
                        /\ pc' = "issue"
                   ELSE IF loc.blockY + 1 < numBlocksY
                   THEN /\ loc' = [done EXCEPT !.blockX = 0, !.blockY = loc.blockY + 1]
                        /\ pc' = "issue"
                   ELSE /\ loc' = [done EXCEPT
                                     !.areaHits = cacheStats.hits - loc.beforeHits,
                                     !.areaMisses = cacheStats.misses - loc.beforeMisses,
                                     !.reported = TRUE,
                                     !.blockX = 0, !.blockY = 0]
                        /\ pc' = "rows"
                /\ blockTiles' = <<>>
                /\ UNCHANGED <<areaIdx, outcome>>
       ELSE Fail(SharpError) /\ UNCHANGED tempFiles
    /\ UNCHANGED <<CONFIG, cache, cacheAtStart, cacheStats, inflight, tempFolders,
                   outputFiles, tileCalls, calls, responses>>

---------------------------------------------------------------------------
(* Phase 2: every block row is reduced to one file *)

\* for (blockY ...): the next block row, or phase 3 when there is none left.
RowLoop ==
    /\ pc = "rows"
    /\ IF loc.blockY < numBlocksY
       THEN /\ loc' = [loc EXCEPT !.currentRowFiles = loc.blockFiles[loc.blockY + 1],
                                  !.iteration = 0]
            /\ pc' = "rowwhile"
       ELSE /\ loc' = [loc EXCEPT !.currentFiles = loc.blockRowFiles,
                                  !.currentRowFiles = <<>>, !.nextFiles = <<>>,
                                  !.iteration = 0, !.i = 0]
            /\ pc' = "colwhile"
    /\ UNCHANGED <<CONFIG, cache, cacheAtStart, cacheStats, inflight, areaIdx,
                   blockTiles, tempFolders, tempFiles, outputFiles, outcome,
                   tileCalls, faults, calls, responses>>

\* while (currentRowFiles.length > 1): a new level, or the row is done.
RowWhile ==
    /\ pc = "rowwhile"
    /\ IF Len(loc.currentRowFiles) > 1
       THEN /\ loc' = [loc EXCEPT !.iteration = loc.iteration + 1,
                                  !.nextFiles = <<>>, !.i = 0]
            /\ pc' = "rowfor"
       ELSE /\ loc' = [loc EXCEPT !.blockRowFiles = Append(@, loc.currentRowFiles[1]),
                                  !.blockY = loc.blockY + 1]
            /\ pc' = "rows"
    /\ UNCHANGED <<CONFIG, cache, cacheAtStart, cacheStats, inflight, areaIdx,
                   blockTiles, tempFolders, tempFiles, outputFiles, outcome,
                   tileCalls, faults, calls, responses>>

\* A faulty variant of the loop over a level of a row: an odd last file is
\* dropped instead of carried to the next level.
RowForDroppingLeftover ==
    /\ pc = "rowfor"
    /\ IF loc.i < Len(loc.currentRowFiles)
       THEN IF loc.i + 1 < Len(loc.currentRowFiles)
            THEN /\ pc' = "hmerge"
                 /\ loc' = loc
            ELSE /\ loc' = [loc EXCEPT !.i = loc.i + 2]
                 /\ pc' = "rowfor"
       ELSE /\ loc' = [loc EXCEPT !.currentRowFiles = loc.nextFiles]
            /\ pc' = "rowwhile"
    /\ UNCHANGED <<CONFIG, cache, cacheAtStart, cacheStats, inflight, areaIdx,
                   blockTiles, tempFolders, tempFiles, outputFiles, outcome,
                   tileCalls, faults, calls, responses>>

\* for (i ...; i += 2): a pair to merge, a last file carried over, or the
\* end of the level.
RowFor ==
    /\ pc = "rowfor"
    /\ IF loc.i < Len(loc.currentRowFiles)
       THEN IF loc.i + 1 < Len(loc.currentRowFiles)
            THEN /\ pc' = "hmerge"
                 /\ loc' = loc
            ELSE /\ loc' = [loc EXCEPT !.nextFiles = Append(@, loc.currentRowFiles[loc.i + 1]),
                                       !.i = loc.i + 2]
                 /\ pc' = "rowfor"
       ELSE /\ loc' = [loc EXCEPT !.currentRowFiles = loc.nextFiles]
            /\ pc' = "rowwhile"
    /\ UNCHANGED <<CONFIG, cache, cacheAtStart, cacheStats, inflight, areaIdx,
                   blockTiles, tempFolders, tempFiles, outputFiles, outcome,
                   tileCalls, faults, calls, responses>>

\* The merge of currentRowFiles[i] and currentRowFiles[i + 1] into
\* row<blockY>_iter<iteration>_<i / 2>.png is over.
HMerge(ok) ==
    /\ Environment(ok)
    /\ pc = "hmerge"
    /\ IF ok
       THEN LET file1 == loc.currentRowFiles[loc.i + 1]
                file2 == loc.currentRowFiles[loc.i + 2]
                stitchedPath == TempPath(loc.tempFolder, "row", loc.blockY,
                                         loc.iteration, loc.i \div 2)
            IN  /\ tempFiles' = WriteFile(tempFiles, stitchedPath,
                                    StitchHorizontal(tempFiles[file1], tempFiles[file2]))
                /\ loc' = [loc EXCEPT !.nextFiles = Append(@, stitchedPath),
                                      !.i = loc.i + 2]
                /\ pc' = "rowfor"
                /\ UNCHANGED <<areaIdx, outcome, blockTiles>>
       ELSE Fail(SharpError) /\ UNCHANGED tempFiles
    /\ UNCHANGED <<CONFIG, cache, cacheAtStart, cacheStats, inflight, tempFolders,
                   outputFiles, tileCalls, calls, responses>>

---------------------------------------------------------------------------
(* Phase 3: the row files are reduced to one file *)

ColWhile ==
    /\ pc = "colwhile"
    /\ IF Len(loc.currentFiles) > 1
       THEN /\ loc' = [loc EXCEPT !.iteration = loc.iteration + 1,
                                  !.nextFiles = <<>>, !.i = 0]
            /\ pc' = "colfor"
       ELSE /\ loc' = loc
            /\ pc' = "copy"
    /\ UNCHANGED <<CONFIG, cache, cacheAtStart, cacheStats, inflight, areaIdx,
                   blockTiles, tempFolders, tempFiles, outputFiles, outcome,
                   tileCalls, faults, calls, responses>>

ColFor ==
    /\ pc = "colfor"
    /\ IF loc.i < Len(loc.currentFiles)
       THEN IF loc.i + 1 < Len(loc.currentFiles)
            THEN /\ pc' = "vmerge"
                 /\ loc' = loc
            ELSE /\ loc' = [loc EXCEPT !.nextFiles = Append(@, loc.currentFiles[loc.i + 1]),
                                       !.i = loc.i + 2]
                 /\ pc' = "colfor"
       ELSE /\ loc' = [loc EXCEPT !.currentFiles = loc.nextFiles]
            /\ pc' = "colwhile"
    /\ UNCHANGED <<CONFIG, cache, cacheAtStart, cacheStats, inflight, areaIdx,
                   blockTiles, tempFolders, tempFiles, outputFiles, outcome,
                   tileCalls, faults, calls, responses>>

\* The merge of currentFiles[i] and currentFiles[i + 1] into
\* final_iter<iteration>_<i / 2>.png is over.
VMerge(ok) ==
    /\ Environment(ok)
    /\ pc = "vmerge"
    /\ IF ok
       THEN LET file1 == loc.currentFiles[loc.i + 1]
                file2 == loc.currentFiles[loc.i + 2]
                stitchedPath == TempPath(loc.tempFolder, "final", loc.iteration,
                                         loc.i \div 2, 0)
            IN  /\ tempFiles' = WriteFile(tempFiles, stitchedPath,
                                    StitchVertical(tempFiles[file1], tempFiles[file2]))
                /\ loc' = [loc EXCEPT !.nextFiles = Append(@, stitchedPath),
                                      !.i = loc.i + 2]
                /\ pc' = "colfor"
                /\ UNCHANGED <<areaIdx, outcome, blockTiles>>
       ELSE Fail(SharpError) /\ UNCHANGED tempFiles
    /\ UNCHANGED <<CONFIG, cache, cacheAtStart, cacheStats, inflight, tempFolders,
                   outputFiles, tileCalls, calls, responses>>

---------------------------------------------------------------------------
(* Output and cleanup *)

\* fs.copyFileSync(finalFilePath, outputPath)
CopyOutput(ok) ==
    /\ Environment(ok)
    /\ pc = "copy"
    /\ IF ok
       THEN /\ outputFiles' = (Area.name :> tempFiles[loc.currentFiles[1]]) @@ outputFiles
            /\ pc' = "cleanup"
            /\ UNCHANGED <<areaIdx, loc, outcome, blockTiles>>
       ELSE Fail(CopyError) /\ UNCHANGED outputFiles
    /\ UNCHANGED <<CONFIG, cache, cacheAtStart, cacheStats, inflight, tempFolders,
                   tempFiles, tileCalls, calls, responses>>

\* cleanupTempFolder(tempFolder), the two last log lines, and the loop goes on.
Cleanup ==
    /\ pc = "cleanup"
    /\ tempFolders' = tempFolders \ {loc.tempFolder}
    /\ tempFiles' = cleanupTempFolder(tempFiles, loc.tempFolder)
    /\ cache' = CacheAfterCleanup(cache, loc.tempFolder)
    /\ outcome' = [outcome EXCEPT ![areaIdx] =
                      Logged("saved", NoError, numTilesX(loc) * TILE_SIZE,
                             numTilesY(loc) * TILE_SIZE)]
    /\ areaIdx' = areaIdx + 1
    /\ pc' = "loop"
    /\ loc' = LocInit
    /\ UNCHANGED <<CONFIG, cacheAtStart, cacheStats, inflight, blockTiles,
                   outputFiles, tileCalls, faults, calls, responses>>

---------------------------------------------------------------------------

Next ==
    \/ BeginArea
    \/ EndBatch
    \/ IssueBlock
    \/ ProviderResponse
    \/ TilesSettled
    \/ \E ok \in BOOLEAN : ResizeTiles(ok)
    \/ \E ok \in BOOLEAN : ComposeBlock(ok)
    \/ RowLoop
    \/ RowWhile
    \/ RowFor
    \/ \E ok \in BOOLEAN : HMerge(ok)
    \/ ColWhile
    \/ ColFor
    \/ \E ok \in BOOLEAN : VMerge(ok)
    \/ \E ok \in BOOLEAN : CopyOutput(ok)
    \/ Cleanup

Spec == Init /\ [][Next]_vars

\* A coordinate run: the program up to the getMapTile calls of the first
\* block of the area.
GeoNext == BeginArea \/ IssueBlock

GeoSpec == GeoInit /\ [][GeoNext]_vars

\* A run on a wide area with a full cache: no provider request is sent, so
\* no provider answer is ever handled.
WideNext ==
    \/ BeginArea
    \/ EndBatch
    \/ IssueBlock
    \/ TilesSettled
    \/ \E ok \in BOOLEAN : ResizeTiles(ok)
    \/ \E ok \in BOOLEAN : ComposeBlock(ok)
    \/ RowLoop
    \/ RowWhile
    \/ RowFor
    \/ \E ok \in BOOLEAN : HMerge(ok)
    \/ ColWhile
    \/ ColFor
    \/ \E ok \in BOOLEAN : VMerge(ok)
    \/ \E ok \in BOOLEAN : CopyOutput(ok)
    \/ Cleanup

WideSpec == WideInit /\ [][WideNext]_vars

---------------------------------------------------------------------------
(* Properties *)

AreaFinalRange(i) ==
    FinalRange(CenterRange(CONFIG.areas[i], CONFIG.zoom), CONFIG.use3x3Grid)

FinalTileCount(i) == numTilesX(AreaFinalRange(i)) * numTilesY(AreaFinalRange(i))

\* The tile-count check of area i has run.
LimitChecked(i) == i < areaIdx \/ (i = areaIdx /\ pc # "loop")

\* The processing of area i is over.
AreaOver(i) == i < areaIdx \/ (i = areaIdx /\ pc = "exit")

\* Area i has copied its final file to its output path.
OutputWritten(i) == outcome[i].status = "saved" \/ (i = areaIdx /\ pc = "cleanup")

TempFilesOf(name) == {p \in DOMAIN tempFiles : p.folder = name}

FailedResponses(i) == {q \in responses : q.area = i /\ q.res = "fail"}

\* C1: an area is refused as too large exactly when the tile count of its
\* final range (the center range, or its 3x3 expansion) is above maxTiles, and
\* an area that is refused has made no getMapTile call: no cache lookup, no
\* provider request.
C1_TooLargeIffOverLimit ==
    \A i \in DOMAIN CONFIG.areas :
        /\ LimitChecked(i) =>
              (outcome[i].status = "tooLarge" <=> FinalTileCount(i) > CONFIG.maxTiles)
        /\ ~LimitChecked(i) => outcome[i].status # "tooLarge"
        /\ outcome[i].status = "tooLarge" =>
              /\ tileCalls[i] = 0
              /\ \A r \in inflight : r.area # i
              /\ \A k \in DOMAIN calls : calls[k].area # i
              /\ \A q \in responses : q.area # i

\* An area whose tile count is exactly maxTiles has gone through and fetched
\* its tiles, and a later area over the limit has been refused.
C1_Witness ==
    \E i, j \in DOMAIN CONFIG.areas :
        /\ i < j
        /\ FinalTileCount(i) = CONFIG.maxTiles
        /\ tileCalls[i] = FinalTileCount(i)
        /\ outcome[j].status = "tooLarge"
        /\ FinalTileCount(j) > CONFIG.maxTiles

\* C2: whatever fatal failure an area meets, the later areas are processed:
\* when the run is over every area of the batch has its outcome, an output
\* file written or a failure logged.
C2_EveryAreaReachesOutcome ==
    pc \in {"done", "exit"} => \A i \in DOMAIN CONFIG.areas : outcome[i].status # "none"

\* C3: an area one of whose provider requests failed writes no output file,
\* and when the batch is through, a later area that met no failure of its own
\* (no failed request, no failed sharp operation or copy) has its output file.
C3_FetchFailureIsolated ==
    \A a \in DOMAIN CONFIG.areas :
        FailedResponses(a) # {} =>
            /\ ~OutputWritten(a)
            /\ pc = "done" =>
                  \A b \in DOMAIN CONFIG.areas :
                      (b > a /\ FailedResponses(b) = {}
                             /\ outcome[b].error.kind \notin {"sharp", "copy"})
                      => /\ outcome[b].status = "saved"
                         /\ CONFIG.areas[b].name \in DOMAIN outputFiles

\* Area a failed on a provider request; the later area b fetched a tile from
\* the provider and saved its map.
C3_Witness ==
    \E a, b \in DOMAIN CONFIG.areas :
        /\ a < b
        /\ FailedResponses(a) # {}
        /\ outcome[a].status = "failed"
        /\ \E q \in responses : q.area = b /\ q.res = "ok"
        /\ outcome[b].status = "saved"
        /\ pc = "done"

\* C4: when the next area starts or the batch ends, the temp folder of every
\* area processed so far, saved or failed, is gone with the files in it.
C4_WorkspaceGoneAfterArea ==
    pc \in {"loop", "done"} =>
        \A i \in DOMAIN CONFIG.areas :
            (i < areaIdx /\ outcome[i].status \in {"saved", "failed"}) =>
                /\ CONFIG.areas[i].name \notin tempFolders
                /\ TempFilesOf(CONFIG.areas[i].name) = {}

\* C5: the output file of an area is copied from the one file that is left
\* of the reduction while the temp folder still exists, and once the area is
\* saved no file of its temp folder exists any more: the output file only.
C5_OnlyOutputRemains ==
    /\ pc = "cleanup" =>
          /\ Len(loc.currentFiles) = 1
          /\ loc.currentFiles[1] \in DOMAIN tempFiles
          /\ loc.tempFolder \in tempFolders
          /\ Area.name \in DOMAIN outputFiles
          /\ outputFiles[Area.name] = tempFiles[loc.currentFiles[1]]
    /\ (pc = "loop" /\ areaIdx > 1 /\ outcome[areaIdx - 1].status = "saved") =>
          /\ CONFIG.areas[areaIdx - 1].name \notin tempFolders
          /\ TempFilesOf(CONFIG.areas[areaIdx - 1].name) = {}
          /\ CONFIG.areas[areaIdx - 1].name \in DOMAIN outputFiles

\* An area of several blocks has just been saved.
C5_Witness ==
    /\ pc = "loop"
    /\ areaIdx > 1
    /\ outcome[areaIdx - 1].status = "saved"
    /\ outcome[areaIdx - 1].width > BLOCK_SIZE_TILES * TILE_SIZE
    /\ outcome[areaIdx - 1].height > BLOCK_SIZE_TILES * TILE_SIZE

SameKey(c1, c2) == c1.zoom = c2.zoom /\ c1.x = c2.x /\ c1.y = c2.y

\* calls[k1] and calls[k2] are the first two getMapTile calls of the run for
\* their key, and the key had no cache entry when the run started.
FirstTwoCalls(k1, k2) ==
    /\ k1 < k2
    /\ SameKey(calls[k1], calls[k2])
    /\ getTileCachePath(calls[k1].x, calls[k1].y, calls[k1].zoom) \notin cacheAtStart
    /\ \A k \in 1 .. (k2 - 1) : (k # k1) => ~SameKey(calls[k], calls[k1])

\* The request of the call c was answered with the bytes, and the bytes were
\* in the cache before the call number k2 was made.
AnsweredBefore(c, k2) ==
    \E q \in responses :
        /\ q.area = c.area /\ SameKey(q, c)
        /\ q.res = "ok"
        /\ q.at < k2

C7_CachedCallIsHit ==
    /\ \A k \in DOMAIN calls :
          calls[k].cached =>
              calls[k].hits = 1 /\ calls[k].misses = 0 /\ calls[k].requests = 0
    /\ \A k \in DOMAIN blockTiles :
          blockTiles[k].call.cached =>
              /\ blockTiles[k].call.requests = 0
              /\ blockTiles[k].state = "fulfilled"

\* The call record c is that of a call served from the cache.
ServedFromCache(c) == c.hits = 1 /\ c.misses = 0 /\ c.requests = 0

\* The call record c is that of a call that fell back to the provider after
\* the read of the cache file failed.
FellBackToProvider(c) == c.hits = 1 /\ c.misses = 1 /\ c.requests = 1

\* C7 amended: a getMapTile call that finds a cache file under the tile's key
\* and can read it returns the stored bytes, counts one hit and no miss and
\* sends no provider request; when the read of the file fails the call counts
\* one hit and one miss and sends one provider request.
C7_CachedCallIsHitWhenReadable ==
    /\ \A k \in DOMAIN calls :
          /\ (calls[k].cached /\ ~calls[k].readFailed) => ServedFromCache(calls[k])
          /\ (calls[k].cached /\ calls[k].readFailed) => FellBackToProvider(calls[k])
    /\ \A k \in DOMAIN blockTiles :
          LET p == blockTiles[k]
          IN  /\ (p.call.cached /\ ~p.call.readFailed) =>
                    /\ ServedFromCache(p.call)
                    /\ p.state = "fulfilled"
                    /\ \/ p.value = TileData(p.x, p.y, p.call.zoom)
                       \/ /\ p.value = TruncatedData(p.x, p.y, p.call.zoom)
                          /\ \E q \in responses : q.res = "partial" /\ SameKey(q, p.call)
                    /\ \A r \in inflight : ~(r.area = p.call.area /\ SameKey(r, p.call))
              /\ (p.call.cached /\ p.call.readFailed) => FellBackToProvider(p.call)

\* In one block a cache file was read and another could not be read.
C7_Witness ==
    \E k1, k2 \in DOMAIN blockTiles :
        /\ blockTiles[k1].call.cached /\ ~blockTiles[k1].call.readFailed
        /\ blockTiles[k1].state = "fulfilled"
        /\ blockTiles[k2].call.cached /\ blockTiles[k2].call.readFailed
        /\ blockTiles[k2].state = "pending"

NoWriteResponses(i) == {q \in responses : q.area = i /\ q.res \in {"nowrite", "partial"}}

\* C8: when the provider has answered and the write of the cache file has
\* failed, the call returns the downloaded bytes, the area does not fail with
\* the download error of that tile, and an area that meets no other failure
\* is saved.
C8_CacheWriteFailureHarmless ==
    /\ \A q \in responses :
          q.res \in {"nowrite", "partial"} =>
              /\ q.thrown = NoError
              /\ outcome[q.area].error # [kind |-> "download", zoom |-> q.zoom,
                                          x |-> q.x, y |-> q.y]
              /\ \A k \in DOMAIN blockTiles :
                    (q.area = areaIdx /\ blockTiles[k].x = q.x /\ blockTiles[k].y = q.y) =>
                        /\ blockTiles[k].state = "fulfilled"
                        /\ blockTiles[k].value = [zoom |-> q.zoom, x |-> q.x, y |-> q.y]
    /\ \A i \in DOMAIN CONFIG.areas :
          (NoWriteResponses(i) # {} /\ faults = Cardinality(NoWriteResponses(i)) /\ AreaOver(i))
          => outcome[i].status = "saved"

\* An area one of whose cache writes failed has been saved.
C8_Witness ==
    \E i \in DOMAIN CONFIG.areas :
        /\ NoWriteResponses(i) # {}
        /\ outcome[i].status = "saved"
        /\ CONFIG.areas[i].name \in DOMAIN outputFiles

\* C9: a getMapTile call sends at most one provider request; a failed
\* request makes the call fail with an error that carries the zoom, x and y
\* of the tile, is not sent again (no request of the same call is in flight
\* or answered a second time) and writes nothing to the cache.
C9_OneRequestNoRetry ==
    /\ \A k \in DOMAIN calls : calls[k].requests <= 1
    /\ \A k \in DOMAIN blockTiles : blockTiles[k].call.requests <= 1
    /\ \A q \in responses :
          /\ \A r \in inflight : ~(r.area = q.area /\ SameKey(r, q))
          /\ \A q2 \in responses : (q2.area = q.area /\ SameKey(q2, q)) => q2 = q
          /\ q.res = "fail" =>
                /\ q.thrown = [kind |-> "download", zoom |-> q.zoom, x |-> q.x, y |-> q.y]
                /\ ~q.wrote
                /\ \A k \in DOMAIN blockTiles :
                      (q.area = areaIdx /\ blockTiles[k].x = q.x /\ blockTiles[k].y = q.y) =>
                          /\ blockTiles[k].state = "rejected"
                          /\ blockTiles[k].reason = q.thrown
    /\ \A i \in DOMAIN CONFIG.areas :
          Cardinality({r \in inflight : r.area = i})
              + Cardinality({q \in responses : q.area = i}) <= tileCalls[i]

\* An area has failed with the download error of a tile whose request failed,
\* and the cache has no file for the tile.
C9_Witness ==
    \E q \in responses :
        /\ q.res = "fail"
        /\ outcome[q.area].status = "failed"
        /\ outcome[q.area].error = q.thrown
        /\ ~CacheExists(cache, getTileCachePath(q.x, q.y, q.zoom))

\* The image that shows every tile of the range r once, at its cell.
ExpectedMosaic(r, zoom) ==
    [width |-> numTilesX(r) * TILE_SIZE,
     height |-> numTilesY(r) * TILE_SIZE,
     px |-> {[left |-> cx * TILE_SIZE, top |-> cy * TILE_SIZE,
              data |-> [zoom |-> zoom, x |-> r.minTileX + cx, y |-> r.minTileY + cy]] :
             <<cx, cy>> \in (0 .. numTilesX(r) - 1) \X (0 .. numTilesY(r) - 1)}]

\* C10: the output image of an area is numTilesX*tileSize wide and
\* numTilesY*tileSize high and shows, for every cell (cx, cy) of the range,
\* the tile (minTileX+cx, minTileY+cy) at offset (cx*tileSize, cy*tileSize),
\* once, and nothing else.
C10_MosaicShowsEveryTileAtItsCell ==
    \A i \in DOMAIN CONFIG.areas :
        OutputWritten(i) =>
            /\ CONFIG.areas[i].name \in DOMAIN outputFiles
            /\ outputFiles[CONFIG.areas[i].name] = ExpectedMosaic(AreaFinalRange(i), CONFIG.zoom)
            /\ Cardinality(outputFiles[CONFIG.areas[i].name].px) = FinalTileCount(i)

\* The output of a grid of 3 by 2 blocks whose sizes are not multiples of the
\* block size has been written.
C10_Witness ==
    /\ pc = "cleanup"
    /\ numBlocksX = 3 /\ numBlocksY = 2
    /\ numTilesX(loc) % BLOCK_SIZE_TILES # 0
    /\ numTilesY(loc) % BLOCK_SIZE_TILES # 0
    /\ Area.name \in DOMAIN outputFiles
    /\ outputFiles[Area.name].width = numTilesX(loc) * TILE_SIZE

\* C11: the file copied to the output path of an area is numTilesX*TILE_SIZE
\* wide and numTilesY*TILE_SIZE high, numTilesX and numTilesY being the width
\* and height of the final range, and these are the dimensions the run
\* reports when it has saved the area.
C11_OutputSizeIsReportedSize ==
    \A i \in DOMAIN CONFIG.areas :
        /\ OutputWritten(i) =>
              /\ outputFiles[CONFIG.areas[i].name].width
                    = numTilesX(AreaFinalRange(i)) * TILE_SIZE
              /\ outputFiles[CONFIG.areas[i].name].height
                    = numTilesY(AreaFinalRange(i)) * TILE_SIZE
        /\ outcome[i].status = "saved" =>
              /\ outcome[i].width = outputFiles[CONFIG.areas[i].name].width
              /\ outcome[i].height = outputFiles[CONFIG.areas[i].name].height

\* An area expanded to the 3x3 grid, of two rows of blocks, has been saved
\* and its size reported.
C11_Witness ==
    \E i \in DOMAIN CONFIG.areas :
        /\ CONFIG.use3x3Grid
        /\ outcome[i].status = "saved"
        /\ outcome[i].height > BLOCK_SIZE_TILES * TILE_SIZE
        /\ outcome[i].height = outputFiles[CONFIG.areas[i].name].height
        /\ outcome[i].width
              = 3 * CenterRange(CONFIG.areas[i], CONFIG.zoom).centerNumTilesX * TILE_SIZE

\* The final range of the current area has been computed (it is in loc).
RangeSet == pc \notin {"loop", "exit", "done"}

\* C12: with use3x3Grid on, the final range of a center range W tiles wide
\* and H tiles high is [minX-W, maxX+W] x [minY-H, maxY+H]: 3W tiles wide,
\* 3H tiles high, with W columns on each side of the center range and H rows
\* above and below it.
C12_GridIsThreeTimesCenter ==
    (RangeSet /\ CONFIG.use3x3Grid) =>
        LET c == CenterRange(Area, CONFIG.zoom)
            W == c.centerMaxTileX - c.centerMinTileX + 1
            H == c.centerMaxTileY - c.centerMinTileY + 1
        IN  /\ loc.minTileX = c.centerMinTileX - W
            /\ loc.maxTileX = c.centerMaxTileX + W
            /\ loc.minTileY = c.centerMinTileY - H
            /\ loc.maxTileY = c.centerMaxTileY + H
            /\ loc.maxTileX - loc.minTileX + 1 = 3 * W
            /\ loc.maxTileY - loc.minTileY + 1 = 3 * H
            /\ c.centerMinTileX - loc.minTileX = loc.maxTileX - c.centerMaxTileX
            /\ c.centerMinTileY - loc.minTileY = loc.maxTileY - c.centerMaxTileY

\* The 3x3 range of a center range several tiles wide and high, wider than
\* high, has been computed.
C12_Witness ==
    /\ RangeSet
    /\ CONFIG.use3x3Grid
    /\ CenterRange(Area, CONFIG.zoom).centerNumTilesY >= 2
    /\ CenterRange(Area, CONFIG.zoom).centerNumTilesX
          > CenterRange(Area, CONFIG.zoom).centerNumTilesY
    /\ numTilesX(loc) = 3 * CenterRange(Area, CONFIG.zoom).centerNumTilesX

\* Area i has made the getMapTile calls of all its blocks.
FetchedAll(i) ==
    \/ outcome[i].status = "saved"
    \/ /\ i = areaIdx
       /\ pc \in {"rows", "rowwhile", "rowfor", "hmerge", "colwhile", "colfor",
                  "vmerge", "copy", "cleanup"}

\* C13: the tile count of the 3x3 range is 9 times the tile count of the
\* center range, so the count that is compared with maxTiles
\* (centerTileCount*9, or centerTileCount without the grid) is the number
\* numTilesX*numTilesY of tiles of the final range, which is the number of
\* getMapTile calls the area makes.
C13_ComparedCountIsFetchedCount ==
    \A i \in DOMAIN CONFIG.areas :
        LET c == CenterRange(CONFIG.areas[i], CONFIG.zoom)
            compared == totalTileCount(c, CONFIG.use3x3Grid)
        IN  /\ CONFIG.use3x3Grid => FinalTileCount(i) = 9 * c.centerTileCount
            /\ compared = FinalTileCount(i)
            /\ (i = areaIdx /\ RangeSet) =>
                  numTilesX(loc) * numTilesY(loc) = compared
            /\ tileCalls[i] <= compared
            /\ FetchedAll(i) => tileCalls[i] = compared

\* An area of several tiles, expanded to the 3x3 grid, has fetched its tiles:
\* nine times the center count.
C13_Witness ==
    \E i \in DOMAIN CONFIG.areas :
        /\ CONFIG.use3x3Grid
        /\ FetchedAll(i)
        /\ CenterRange(CONFIG.areas[i], CONFIG.zoom).centerTileCount > 1
        /\ tileCalls[i] = 9 * CenterRange(CONFIG.areas[i], CONFIG.zoom).centerTileCount

\* C14: whatever the order of the two corner points, the center range has
\* centerMinTileX <= centerMaxTileX and centerMinTileY <= centerMaxTileY
\* (minY comes from the greater latitude, maxY from the smaller one), so its
\* width and height are at least 1, and so are those of the final range.
C14_CenterRangeIsOrdered ==
    pc # "loop" =>
        LET c == CenterRange(Area, CONFIG.zoom)
        IN  /\ c.centerMinTileX <= c.centerMaxTileX
            /\ c.centerMinTileY <= c.centerMaxTileY
            /\ c.centerMinTileY = lat2tile(Max(Area.point1.lat, Area.point2.lat), CONFIG.zoom)
            /\ c.centerMaxTileY = lat2tile(Min(Area.point1.lat, Area.point2.lat), CONFIG.zoom)
            /\ c.centerNumTilesX >= 1
            /\ c.centerNumTilesY >= 1
            /\ c.centerTileCount >= 1
            /\ RangeSet => (loc.minTileX <= loc.maxTileX /\ loc.minTileY <= loc.maxTileY)

\* The range of an area whose first point is north-east of its second point
\* has been computed, and it is several tiles wide and high.
C14_Witness ==
    /\ RangeSet
    /\ Area.point1.lat > Area.point2.lat
    /\ Area.point1.lon > Area.point2.lon
    /\ loc.minTileX < loc.maxTileX
    /\ loc.minTileY < loc.maxTileY
    /\ ~CONFIG.use3x3Grid

\* lon is a longitude with -180 <= lon < 180.
ValidLon(lon) == lon = LastLonBelow180 \/ (-180000000 <= lon /\ lon < 180000000)

\* C15: for a longitude lon with -180 <= lon < 180, long2tile(lon, zoom) lies
\* in [0, 2^zoom), and it does not decrease when lon grows: the column of the
\* western corner of an area is not above the column of its eastern corner.
C15_Long2TileInRangeAndMonotone ==
    pc # "loop" =>
        /\ \A lon \in {Area.point1.lon, Area.point2.lon} :
              ValidLon(lon) =>
                  /\ 0 <= long2tile(lon, CONFIG.zoom)
                  /\ long2tile(lon, CONFIG.zoom) < Pow2(CONFIG.zoom)
        /\ (Area.point1.lon <= Area.point2.lon) =>
              long2tile(Area.point1.lon, CONFIG.zoom) <= long2tile(Area.point2.lon, CONFIG.zoom)
        /\ (Area.point2.lon <= Area.point1.lon) =>
              long2tile(Area.point2.lon, CONFIG.zoom) <= long2tile(Area.point1.lon, CONFIG.zoom)

\* lat is outside the range of the Mercator projection.
OutsideMercator(lat) == lat > 85051128 \/ lat < -85051128

\* C16: the conversion of a latitude outside the Mercator range fails: an
\* area with such a corner point ends as a failed area, with no tile range
\* computed from a row index of that latitude and no getMapTile call.
C16_InvalidLatitudeRejected ==
    (pc # "loop" /\ (OutsideMercator(Area.point1.lat) \/ OutsideMercator(Area.point2.lat))) =>
        /\ outcome[areaIdx].status = "failed"
        /\ ~RangeSet
        /\ tileCalls[areaIdx] = 0
        /\ blockTiles = <<>>

\* p is a corner point with a longitude of the grid in [-180, 180) and a
\* latitude in the Mercator range.
ValidCorner(p) ==
    /\ -180000000 <= p.lon /\ p.lon < 180000000
    /\ ~OutsideMercator(p.lat)

\* C17: for an area with valid corner points, with or without the 3x3 grid,
\* every getMapTile call is for a tile with 0 <= x < 2^zoom and
\* 0 <= y < 2^zoom.
C17_TileCoordinatesInGrid ==
    (ValidCorner(Area.point1) /\ ValidCorner(Area.point2)) =>
        \A k \in DOMAIN blockTiles :
            /\ blockTiles[k].call.zoom = CONFIG.zoom
            /\ 0 <= blockTiles[k].x /\ blockTiles[k].x < Pow2(CONFIG.zoom)
            /\ 0 <= blockTiles[k].y /\ blockTiles[k].y < Pow2(CONFIG.zoom)

\* C18: when the processing of an area starts, or the batch ends, the
\* pipelines of the areas before it are over, also of those that failed: no
\* provider request of an earlier area is in flight (so none of its cache
\* writes is still to come) and the temp folders of the earlier areas are gone.
C18_AreasStrictlySequential ==
    (pc = "loop" /\ areaIdx > 1) =>
        /\ \A r \in inflight : r.area >= areaIdx
        /\ \A i \in 1 .. (areaIdx - 1) :
              /\ CONFIG.areas[i].name \notin tempFolders
              /\ TempFilesOf(CONFIG.areas[i].name) = {}

\* C19: a cache entry is immutable once written: an entry that was in the
\* cache when the run started is still there and was never written again,
\* and an entry stored during the run was written exactly once.
C19_CacheEntryWrittenOnce ==
    /\ cacheAtStart \subseteq DOMAIN cache
    /\ \A p \in DOMAIN cache :
          cache[p].writes <= (IF p \in cacheAtStart THEN 0 ELSE 1)

\* The current area is composed of more than one block.
MultiBlock == RangeSet /\ numBlocksX * numBlocksY > 1

ImagePixels(image) == image.width * image.height

MosaicPixels == numTilesX(loc) * TILE_SIZE * numTilesY(loc) * TILE_SIZE

C21_CacheReadIsWhole ==
    \A k \in DOMAIN blockTiles :
        (blockTiles[k].call.cached /\ blockTiles[k].state = "fulfilled") =>
            WholeImage(blockTiles[k].value)

\* The least k with 2^k >= n.
Log2Ceil(n) == CHOOSE k \in 0 .. 10 : Pow2(k) >= n /\ (k = 0 \/ Pow2(k - 1) < n)

\* The number of tiles, along an axis of total tiles, of the j-th artifact
\* after k levels of pairwise merges of blocks.
SpanTiles(j, k, total) ==
    Min(total, j * Pow2(k) * BLOCK_SIZE_TILES) - (j - 1) * Pow2(k) * BLOCK_SIZE_TILES

\* next is the level after cur: the files of cur merged in adjacent pairs,
\* in their order, an odd last one carried over as it is in last position.
NextLevel(cur, next) ==
    /\ Len(next) = CeilDiv(Len(cur), 2)
    /\ \A j \in 1 .. (Len(cur) \div 2) :
          /\ \A m \in DOMAIN cur : next[j] # cur[m]
          /\ \A m \in DOMAIN next : m # j => next[m] # next[j]
    /\ Len(cur) % 2 = 1 => next[Len(next)] = cur[Len(cur)]

\* C22: the reduction of a block row of n blocks ends after exactly
\* ceil(log2 n) levels with one artifact; after k levels there are
\* ceil(n / 2^k) artifacts, the j-th spanning the blocks (j-1)*2^k+1 to
\* j*2^k of the row in their order, an odd last one being carried over
\* unmerged in last position. The reduction of the row artifacts to the
\* final one does the same from top to bottom.
C22_PairwiseReductionLevels ==
    /\ pc = "rowwhile" =>
          /\ Len(loc.currentRowFiles) = CeilDiv(numBlocksX, Pow2(loc.iteration))
          /\ Len(loc.currentRowFiles) = 1 <=> loc.iteration = Log2Ceil(numBlocksX)
          /\ \A j \in DOMAIN loc.currentRowFiles :
                tempFiles[loc.currentRowFiles[j]].width
                   = SpanTiles(j, loc.iteration, numTilesX(loc)) * TILE_SIZE
    /\ (pc = "rowfor" /\ loc.i >= Len(loc.currentRowFiles)) =>
          NextLevel(loc.currentRowFiles, loc.nextFiles)
    /\ pc = "rows" => Len(loc.blockRowFiles) = loc.blockY
    /\ pc = "colwhile" =>
          /\ Len(loc.currentFiles) = CeilDiv(numBlocksY, Pow2(loc.iteration))
          /\ Len(loc.currentFiles) = 1 <=> loc.iteration = Log2Ceil(numBlocksY)
          /\ \A j \in DOMAIN loc.currentFiles :
                tempFiles[loc.currentFiles[j]].height
                   = SpanTiles(j, loc.iteration, numTilesY(loc)) * TILE_SIZE
    /\ (pc = "colfor" /\ loc.i >= Len(loc.currentFiles)) =>
          NextLevel(loc.currentFiles, loc.nextFiles)
    /\ pc = "copy" =>
          /\ Len(loc.currentFiles) = 1
          /\ loc.iteration = Log2Ceil(numBlocksY)

\* A row of seven blocks has been reduced to one artifact in three levels,
\* the last block carried over twice.
C22_Witness ==
    /\ pc = "rowwhile"
    /\ numBlocksX = 7
    /\ loc.iteration = 3
    /\ Len(loc.currentRowFiles) = 1

\* The files merged so far in the current level: next[j] is the merge of
\* cur[2j-1] and cur[2j].
MergedPairs(cur, next) == {j \in DOMAIN next : 2 * j <= Len(cur)}

\* C23: in every horizontal merge the two inputs have the same height and
\* the output is width1 + width2 wide and that height high; in every
\* vertical merge the two inputs have the same width and the output is that
\* width wide and height1 + height2 high.
C23_MergeSizesAreExactSums ==
    /\ pc \in {"rowfor", "hmerge"} =>
          \A j \in MergedPairs(loc.currentRowFiles, loc.nextFiles) :
              LET meta1 == tempFiles[loc.currentRowFiles[2 * j - 1]]
                  meta2 == tempFiles[loc.currentRowFiles[2 * j]]
                  out == tempFiles[loc.nextFiles[j]]
              IN  /\ meta1.height = meta2.height
                  /\ out.width = meta1.width + meta2.width
                  /\ out.height = meta1.height
    /\ pc = "hmerge" =>
          tempFiles[loc.currentRowFiles[loc.i + 1]].height
             = tempFiles[loc.currentRowFiles[loc.i + 2]].height
    /\ pc \in {"colfor", "vmerge"} =>
          \A j \in MergedPairs(loc.currentFiles, loc.nextFiles) :
              LET meta1 == tempFiles[loc.currentFiles[2 * j - 1]]
                  meta2 == tempFiles[loc.currentFiles[2 * j]]
                  out == tempFiles[loc.nextFiles[j]]
              IN  /\ meta1.width = meta2.width
                  /\ out.width = meta1.width
                  /\ out.height = meta1.height + meta2.height
    /\ pc = "vmerge" =>
          tempFiles[loc.currentFiles[loc.i + 1]].width
             = tempFiles[loc.currentFiles[loc.i + 2]].width

\* In the second level of a row of seven blocks the artifact of two blocks
\* has been merged with the carried-over last block, which is narrower than
\* ten tiles, in a block row lower than ten tiles.
C23_Witness ==
    /\ pc = "rowfor"
    /\ numBlocksX = 7
    /\ loc.iteration = 2
    /\ Len(loc.nextFiles) = 2
    /\ loc.currentRowFiles[4].kind = "block"
    /\ loc.currentRowFiles[3].kind = "row"
    /\ tempFiles[loc.currentRowFiles[4]].width < BLOCK_SIZE_TILES * TILE_SIZE
    /\ tempFiles[loc.currentRowFiles[4]].height < BLOCK_SIZE_TILES * TILE_SIZE
    /\ tempFiles[loc.nextFiles[2]].width
          = tempFiles[loc.currentRowFiles[3]].width
            + tempFiles[loc.currentRowFiles[4]].width

\* C24: every merge step reads two distinct files that exist and writes a
\* path that did not exist before, and so does the composition of a block:
\* block files, row files and final files never overwrite one another, also
\* when the temp folder of an earlier failed area of the same name is still
\* there.
C24_StepsWriteFreshPaths ==
    /\ pc = "compose" =>
          TempPath(loc.tempFolder, "block", loc.blockY, loc.blockX, 0)
             \notin DOMAIN tempFiles
    /\ pc = "hmerge" =>
          /\ loc.currentRowFiles[loc.i + 1] # loc.currentRowFiles[loc.i + 2]
          /\ {loc.currentRowFiles[loc.i + 1], loc.currentRowFiles[loc.i + 2]}
                \subseteq DOMAIN tempFiles
          /\ TempPath(loc.tempFolder, "row", loc.blockY, loc.iteration, loc.i \div 2)
                \notin DOMAIN tempFiles
    /\ pc = "vmerge" =>
          /\ loc.currentFiles[loc.i + 1] # loc.currentFiles[loc.i + 2]
          /\ {loc.currentFiles[loc.i + 1], loc.currentFiles[loc.i + 2]}
                \subseteq DOMAIN tempFiles
          /\ TempPath(loc.tempFolder, "final", loc.iteration, loc.i \div 2, 0)
                \notin DOMAIN tempFiles

\* The tiles of the block b.
BlockTilesOf(b) == (b.startTileX .. b.endTileX) \X (b.startTileY .. b.endTileY)

\* The blocks of the current area, as pairs <<blockX, blockY>>.
Blocks == (0 .. (numBlocksX - 1)) \X (0 .. (numBlocksY - 1))

\* C25: phase 1 partitions the final range into ceil(numTilesX / 10) x
\* ceil(numTilesY / 10) blocks of 1 to 10 tiles on each axis: every tile of
\* the range is in exactly one block, no block reaches outside the range, the
\* blocks of a block row have one height and those of a block column one
\* width; the getMapTile calls of a block are those of its tiles, each once.
C25_BlocksPartitionRange ==
    /\ pc = "issue" =>
          /\ \A c \in Blocks :
                LET b == BlockRange(loc, c[1], c[2])
                IN  /\ 1 <= blockNumTilesX(b) /\ blockNumTilesX(b) <= BLOCK_SIZE_TILES
                    /\ 1 <= blockNumTilesY(b) /\ blockNumTilesY(b) <= BLOCK_SIZE_TILES
                    /\ BlockTilesOf(b) \subseteq RangeTiles(loc)
                    /\ blockNumTilesY(b) = blockNumTilesY(BlockRange(loc, 0, c[2]))
                    /\ blockNumTilesX(b) = blockNumTilesX(BlockRange(loc, c[1], 0))
          /\ \A t \in RangeTiles(loc) :
                Cardinality({c \in Blocks : t \in BlockTilesOf(BlockRange(loc, c[1], c[2]))}) = 1
          /\ <<loc.blockX, loc.blockY>> \in Blocks
    /\ pc = "await_tiles" =>
          LET b == BlockRange(loc, loc.blockX, loc.blockY)
          IN  /\ {<<blockTiles[k].x, blockTiles[k].y>> : k \in DOMAIN blockTiles}
                    = BlockTilesOf(b)
              /\ Len(blockTiles) = Cardinality(BlockTilesOf(b))
    /\ pc = "rows" =>
          /\ Len(loc.blockFiles) = numBlocksY
          /\ \A y \in DOMAIN loc.blockFiles : Len(loc.blockFiles[y]) = numBlocksX

\* The last block of an area of 17 x 19 tiles, in 2 x 2 blocks, is about to
\* be fetched: it is 7 tiles wide and 9 tiles high.
C25_Witness ==
    /\ pc = "issue"
    /\ numBlocksX = 2 /\ numBlocksY = 2
    /\ loc.blockX = 1 /\ loc.blockY = 1
    /\ blockNumTilesX(BlockRange(loc, loc.blockX, loc.blockY)) = 7
    /\ blockNumTilesY(BlockRange(loc, loc.blockX, loc.blockY)) = 9

\* The path of the block file of the block of area i that holds tile (x, y).
BlockFileOfTile(i, x, y) ==
    TempPath(CONFIG.areas[i].name, "block",
             (y - AreaFinalRange(i).minTileY) \div BLOCK_SIZE_TILES,
             (x - AreaFinalRange(i).minTileX) \div BLOCK_SIZE_TILES, 0)

\* No other area of the batch has the name of area i.
NameUnique(i) ==
    \A j \in DOMAIN CONFIG.areas : j # i => CONFIG.areas[j].name # CONFIG.areas[i].name

\* C26: in a block all getMapTile calls are made before anything is awaited,
\* the block is resized and composed only when every fetch of the block has
\* succeeded and none is in flight; when a fetch of the block has failed the
\* block is not composed, no block file is written for it and the area is
\* not saved.
C26_BlockJoinsAllFetches ==
    /\ pc \in {"await_tiles", "resize", "compose"} =>
          Len(blockTiles)
             = Cardinality(BlockTilesOf(BlockRange(loc, loc.blockX, loc.blockY)))
    /\ pc \in {"resize", "compose"} =>
          /\ \A k \in DOMAIN blockTiles : blockTiles[k].state = "fulfilled"
          /\ \A r \in inflight :
                r.area = areaIdx =>
                   <<r.x, r.y>> \notin BlockTilesOf(BlockRange(loc, loc.blockX, loc.blockY))
          /\ Len(loc.blockTileBuffers) = Len(blockTiles)
          /\ \A k \in DOMAIN blockTiles : loc.blockTileBuffers[k] = blockTiles[k].value
    /\ \A q \in responses :
          q.res = "fail" =>
              /\ outcome[q.area].status # "saved"
              /\ (q.area = areaIdx /\ RangeSet) => pc = "await_tiles"
              /\ AreaOver(q.area) => outcome[q.area].status = "failed"
              /\ NameUnique(q.area) => BlockFileOfTile(q.area, q.x, q.y) \notin DOMAIN tempFiles

\* One fetch of a block has failed and another fetch of the block has
\* succeeded: the area has failed and there is no block file of it.
C26_Witness ==
    \E i \in DOMAIN CONFIG.areas :
        /\ outcome[i].status = "failed"
        /\ NameUnique(i)
        /\ \E q1, q2 \in responses :
              /\ q1.area = i /\ q1.res = "ok"
              /\ q2.area = i /\ q2.res = "fail"
        /\ TempFilesOf(CONFIG.areas[i].name) = {}

\* C27: at every moment the provider requests in flight are those of one
\* block of one area, the block being fetched, so that at most 10 x 10
\* requests are in flight.
C27_InflightOfOneBlock ==
    /\ \A r \in inflight :
          /\ r.area = areaIdx
          /\ pc = "await_tiles"
          /\ <<r.x, r.y>> \in BlockTilesOf(BlockRange(loc, loc.blockX, loc.blockY))
    /\ Cardinality(inflight) <= BLOCK_SIZE_TILES * BLOCK_SIZE_TILES

\* C28: the hits and misses reported for an area count the getMapTile calls
\* made for that area, each call once as a hit or as a miss: their sum is the
\* number of calls of the area and the number of tiles of its final range,
\* whatever happened in the areas before.
C28_ReportCountsEachCallOnce ==
    (RangeSet /\ loc.reported) =>
        /\ loc.areaHits + loc.areaMisses = tileCalls[areaIdx]
        /\ loc.areaHits + loc.areaMisses = numTilesX(loc) * numTilesY(loc)

\* The single-pass version: the buffers of all tiles of the range r, in the
\* order of its two for loops (y outside, x inside).
SinglePassBuffers(r, zoom) ==
    [k \in 1 .. numTilesX(r) * numTilesY(r) |->
        TileData(r.minTileX + ((k - 1) % numTilesX(r)),
                 r.minTileY + ((k - 1) \div numTilesX(r)), zoom)]

\* A tile buffer as a composite input: the image of the tile.
TileImage(buffer) ==
    [width |-> TILE_SIZE, height |-> TILE_SIZE,
     px |-> {[left |-> 0, top |-> 0, data |-> buffer]}]

\* The single-pass version: compositeOptions, one entry per tile, the buffer
\* tileBuffers[i] with i = (y - minTileY) * numTilesX + (x - minTileX) at
\* ((x - minTileX) * TILE_SIZE, (y - minTileY) * TILE_SIZE).
SinglePassOptions(r, tileBuffers) ==
    [k \in 1 .. numTilesX(r) * numTilesY(r) |->
        LET x == r.minTileX + ((k - 1) % numTilesX(r))
            y == r.minTileY + ((k - 1) \div numTilesX(r))
            i == (y - r.minTileY) * numTilesX(r) + (x - r.minTileX)
        IN  [input |-> TileImage(tileBuffers[i + 1]),
             left |-> (x - r.minTileX) * TILE_SIZE,
             top |-> (y - r.minTileY) * TILE_SIZE]]

\* The single-pass version: the stitched image.
SinglePassImage(r, zoom) ==
    Composite(numTilesX(r) * TILE_SIZE, numTilesY(r) * TILE_SIZE,
              SinglePassOptions(r, SinglePassBuffers(r, zoom)))

\* C29: the order of merging does not change the content of the mosaic: the
\* image the block pipeline writes for an area has the size of, and the same
\* tile at every cell as, the image the single-pass version composes from
\* all tiles at offsets ((x - minTileX) * tileSize, (y - minTileY) * tileSize).
C29_BlockPipelineEqualsSinglePass ==
    \A i \in DOMAIN CONFIG.areas :
        OutputWritten(i) =>
            outputFiles[CONFIG.areas[i].name]
               = SinglePassImage(AreaFinalRange(i), CONFIG.zoom)

\* The output of an area of 7 x 2 blocks (64 x 15 tiles), reduced in three
\* levels of row merges and one column merge, has been written.
C29_Witness ==
    /\ pc = "cleanup"
    /\ numBlocksX = 7 /\ numBlocksY = 2
    /\ Area.name \in DOMAIN outputFiles
    /\ Cardinality(outputFiles[Area.name].px) = 64 * 15

\* C30: creating and cleaning up the temp folder of an area leaves the tile
\* cache as it is: the steps that start an area, clean up after it or end it
\* in the catch block change no cache entry, and what a successful fetch has
\* written under a key is still in the cache after its area has failed or
\* been cleaned up.
C30_WorkspaceStepsKeepCache ==
    /\ [][(pc \in {"loop", "cleanup"} \/ areaIdx' # areaIdx) => cache' = cache]_vars
    /\ [](\A q \in responses :
             q.wrote => getTileCachePath(q.x, q.y, q.zoom) \in DOMAIN cache)
    /\ [](cacheAtStart \subseteq DOMAIN cache)

\* An area whose fetch had stored a tile has failed, another area has been
\* saved and cleaned up, and the stored tile is in the cache.
C30_Witness ==
    \E i, j \in DOMAIN CONFIG.areas :
        /\ outcome[i].status = "failed"
        /\ outcome[j].status = "saved"
        /\ \E q \in responses :
              /\ q.area = i /\ q.res = "ok"
              /\ getTileCachePath(q.x, q.y, q.zoom) \in DOMAIN cache

====
